---- MODULE Spec2Model ----
(***************************************************************************)
(* Measure::MeasureDiameter (src/Mod/Measure/App/MeasureDiameter.cpp).     *)
(*                                                                         *)
(* Two specifications share the variables:                                 *)
(*   SpecSel  the selection predicates isValidSelection and                *)
(*            isPrioritizedSelection applied to every bounded selection    *)
(*            over every bounded geometry;                                 *)
(*   SpecObj  the document object: Element, Diameter, parseSelection,      *)
(*            onChanged, recompute and execute, with the call stack of     *)
(*            the (single-threaded) property notification.                 *)
(***************************************************************************)
EXTENDS Integers, Sequences, FiniteSets, TLC

\* ------------------------------------------------------------------ bounds
MaxSel == 2        \* longest selection handed to the selection predicates
MaxEdges == 2      \* most edges a TopExp_Explorer finds on a face
MaxRadius == 2     \* largest radius a measure handler reports
MaxSubs == 2       \* longest sub-element list stored in Element

\* ---------------------------------------------------------------- universe
Objects == {"Part"}
SubNames == {"Edge1", "Face1"}
NullObj == "nullptr"

\* App::SubObjectT: what element.object holds
SubObjectTs == [obj : Objects, sub : SubNames]

\* App::MeasureElementType values the classifier can answer
ElementTypes ==
    {"INVALID", "POINT", "LINE", "CIRCLE", "ARC", "PLANE", "CYLINDER", "SURFACE"}

\* BRepAdaptor_Curve::GetType answers; the code tells GeomAbs_Circle from the rest
CurveTypes == {"GeomAbs_Line", "GeomAbs_Circle"}

RECURSIVE SeqsUpTo(_, _)
SeqsUpTo(S, n) ==
    IF n = 0 THEN {<<>>}
    ELSE LET shorter == SeqsUpTo(S, n - 1)
         IN  shorter \cup {Append(s, x) : s \in {t \in shorter : Len(t) = n - 1}, x \in S}

\* TopoDS_Shape as the code sees it: IsNull(), ShapeType(), and the curve
\* types of the edges TopExp_Explorer(shape, TopAbs_EDGE) walks through.
NullShape == [null |-> TRUE, type |-> "none", edges |-> <<>>]
FaceShapes ==
    {[null |-> FALSE, type |-> "TopAbs_FACE", edges |-> es] : es \in SeqsUpTo(CurveTypes, MaxEdges)}
EdgeShapes ==
    {[null |-> FALSE, type |-> "TopAbs_EDGE", edges |-> <<c>>] : c \in CurveTypes}
Shapes == {NullShape} \cup FaceShapes \cup EdgeShapes

\* App::MeasureSelection: a vector of items, each holding a SubObjectT
SelectionItems == [object : SubObjectTs]
Selections == SeqsUpTo(SelectionItems, MaxSel)

\* Part::MeasureInfo as execute() sees it
NullInfo == [kind |-> "null", valid |-> FALSE, radius |-> 0]
DefaultRadiusInfo == [kind |-> "MeasureRadiusInfo", valid |-> FALSE, radius |-> 0]
Radii == 1..MaxRadius
HandlerInfos ==
    {NullInfo, DefaultRadiusInfo, [kind |-> "MeasureLengthInfo", valid |-> TRUE, radius |-> 0]}
    \cup {[kind |-> "MeasureRadiusInfo", valid |-> TRUE, radius |-> r] : r \in Radii}

StdReturn == "StdReturn"
CannotCalculate == "Cannot calculate diameter"

VARIABLES
    selection,      \* argument of the selection predicates
    elementType,    \* App::MeasureManager::getMeasureElementType, per SubObjectT
    shapeOf,        \* Part::Feature::getShape, per SubObjectT
    validRes,       \* result of the last isValidSelection(selection)
    prioRes,        \* result of the last isPrioritizedSelection(selection)
    measureInfo,    \* getMeasureInfo(subject), per SubObjectT
    Element,        \* App::PropertyLinkSub Element
    Diameter,       \* Diameter property
    restoring,      \* isRestoring()
    removing,       \* isRemoving()
    stack,          \* call stack of onChanged / execute frames
    done,           \* the onChanged call that returned last
    lastExec,       \* the execute call that returned last
    unsynced        \* Element was last set while restoring or removing

selVars == <<selection, elementType, shapeOf, validRes, prioRes>>
objVars == <<measureInfo, Element, Diameter, restoring, removing, stack, done, lastExec, unsynced>>
vars == <<selection, elementType, shapeOf, validRes, prioRes,
          measureInfo, Element, Diameter, restoring, removing, stack, done, lastExec, unsynced>>

Ret(b) == IF b THEN "true" ELSE "false"

\* ------------------------------------------------- selection predicates
\* lines 95-101: the explorer loop of isValidSelection from edge i on
RECURSIVE validEdgeLoop(_, _)
validEdgeLoop(edges, i) ==
    IF i > Len(edges) THEN FALSE
    ELSE IF edges[i] = "GeomAbs_Circle" THEN TRUE
    ELSE validEdgeLoop(edges, i + 1)

\* lines 139-151: the explorer loop of isPrioritizedSelection from edge i on
RECURSIVE prioritizedEdgeLoop(_, _, _)
prioritizedEdgeLoop(edges, i, foundCircle) ==
    IF i > Len(edges) THEN foundCircle
    ELSE IF edges[i] # "GeomAbs_Circle" THEN FALSE
    ELSE prioritizedEdgeLoop(edges, i + 1, TRUE)

isValidSelection_noSizeCheck(sel) ==
    IF sel = <<>> THEN FALSE
    ELSE LET element == Head(sel)
             type == elementType[element.object]
             shape == shapeOf[element.object]
         IN  IF type = "INVALID" THEN FALSE
             ELSE IF type \in {"CIRCLE", "ARC", "CYLINDER"} THEN TRUE
             ELSE IF type \in {"SURFACE", "PLANE"} THEN
                 IF shape.null THEN FALSE
                 ELSE IF shape.type = "TopAbs_FACE" THEN validEdgeLoop(shape.edges, 1)
                 ELSE FALSE
             ELSE FALSE

isValidSelection_noFaceCheck(sel) ==
    IF sel = <<>> \/ Len(sel) > 1 THEN FALSE
    ELSE LET element == Head(sel)
             type == elementType[element.object]
             shape == shapeOf[element.object]
         IN  IF type = "INVALID" THEN FALSE
             ELSE IF type \in {"CIRCLE", "ARC", "CYLINDER"} THEN TRUE
             ELSE IF type \in {"SURFACE", "PLANE"} THEN
                 IF shape.null THEN FALSE
                 ELSE validEdgeLoop(shape.edges, 1)
             ELSE FALSE

isValidSelection(sel) ==
    IF sel = <<>> \/ Len(sel) > 1 THEN FALSE
    ELSE LET element == Head(sel)
             type == elementType[element.object]
             shape == shapeOf[element.object]
         IN  IF type = "INVALID" THEN FALSE
             ELSE IF type \in {"CIRCLE", "ARC", "CYLINDER"} THEN TRUE
             ELSE IF type \in {"SURFACE", "PLANE"} THEN
                 IF shape.null THEN FALSE
                 ELSE IF shape.type = "TopAbs_FACE" THEN validEdgeLoop(shape.edges, 1)
                 ELSE FALSE
             ELSE FALSE

isPrioritizedSelection_noFoundCircle(sel) ==
    IF Len(sel) # 1 THEN FALSE
    ELSE LET element == Head(sel)
             type == elementType[element.object]
             shape == shapeOf[element.object]
         IN  IF type \in {"CIRCLE", "ARC", "CYLINDER"} THEN TRUE
             ELSE IF type \in {"SURFACE", "PLANE"} THEN
                 IF shape.null THEN FALSE
                 ELSE IF shape.type = "TopAbs_FACE"
                      THEN prioritizedEdgeLoop(shape.edges, 1, TRUE)
                 ELSE FALSE
             ELSE FALSE

isPrioritizedSelection(sel) ==
    IF Len(sel) # 1 THEN FALSE
    ELSE LET element == Head(sel)
             type == elementType[element.object]
             shape == shapeOf[element.object]
         IN  IF type \in {"CIRCLE", "ARC", "CYLINDER"} THEN TRUE
             ELSE IF type \in {"SURFACE", "PLANE"} THEN
                 IF shape.null THEN FALSE
                 ELSE IF shape.type = "TopAbs_FACE"
                      THEN prioritizedEdgeLoop(shape.edges, 1, FALSE)
                 ELSE FALSE
             ELSE FALSE

\* ------------------------------------------------------ SpecSel actions
InitObj ==
    /\ Element = [obj |-> NullObj, subs |-> <<>>]
    /\ Diameter = 0
    /\ restoring = FALSE
    /\ removing = FALSE
    /\ stack = <<>>
    /\ done = <<>>
    /\ lastExec = <<>>
    /\ unsynced = FALSE

InitSel ==
    /\ selection \in Selections
    /\ elementType \in [SubObjectTs -> ElementTypes]
    /\ shapeOf \in [SubObjectTs -> Shapes]
    /\ validRes = "unset"
    /\ prioRes = "unset"
    /\ measureInfo = [s \in SubObjectTs |-> NullInfo]
    /\ InitObj

CallIsValidSelection ==
    /\ validRes' = Ret(isValidSelection(selection))
    /\ UNCHANGED <<selection, elementType, shapeOf, prioRes>>
    /\ UNCHANGED objVars

CallIsPrioritizedSelection ==
    /\ prioRes' = Ret(isPrioritizedSelection(selection))
    /\ UNCHANGED <<selection, elementType, shapeOf, validRes>>
    /\ UNCHANGED objVars

SelectionChanged ==
    /\ \E sel \in Selections : selection' = sel
    /\ validRes' = "unset"
    /\ prioRes' = "unset"
    /\ UNCHANGED <<elementType, shapeOf>>
    /\ UNCHANGED objVars

NextSel == CallIsValidSelection \/ CallIsPrioritizedSelection \/ SelectionChanged

SpecSel == InitSel /\ [][NextSel]_vars

\* ------------------------------------------------- selection claims
OneElement == Len(selection) = 1
FrontType == elementType[Head(selection).object]
FrontShape == shapeOf[Head(selection).object]
IsFace(shape) == ~shape.null /\ shape.type = "TopAbs_FACE"
AllCircular(shape) == \A i \in 1..Len(shape.edges) : shape.edges[i] = "GeomAbs_Circle"
SomeCircular(shape) == \E i \in 1..Len(shape.edges) : shape.edges[i] = "GeomAbs_Circle"

\* C1 (as stated): for a one-element SURFACE or PLANE selection,
\* isValidSelection returns true only when the resolved shape is a face whose
\* boundary edges are all circular.
C1_ValidOnlyIfAllEdgesCircular ==
    (validRes = "true" /\ OneElement /\ FrontType \in {"SURFACE", "PLANE"})
        => (IsFace(FrontShape) /\ AllCircular(FrontShape))

\* C1 (amended): for a one-element SURFACE or PLANE selection,
\* isValidSelection returns true only when the resolved shape is a face that
\* has at least one circular boundary edge.
C1_ValidOnlyIfSomeEdgeCircular ==
    (validRes = "true" /\ OneElement /\ FrontType \in {"SURFACE", "PLANE"})
        => (IsFace(FrontShape) /\ SomeCircular(FrontShape))

C1_Witness ==
    /\ validRes = "true"
    /\ OneElement
    /\ FrontType \in {"SURFACE", "PLANE"}
    /\ IsFace(FrontShape)
    /\ SomeCircular(FrontShape)
    /\ ~AllCircular(FrontShape)

\* C3: isValidSelection returns false for an empty selection, for a selection
\* of more than one element and for one element of a type other than CIRCLE,
\* ARC, CYLINDER, SURFACE, PLANE; it returns true for one element of type
\* CIRCLE, ARC or CYLINDER whatever the shape is.
C3_ValidByCountAndType ==
    validRes # "unset" =>
        /\ (Len(selection) = 0 \/ Len(selection) > 1) => validRes = "false"
        /\ (OneElement /\ FrontType \notin {"CIRCLE", "ARC", "CYLINDER", "SURFACE", "PLANE"})
               => validRes = "false"
        /\ (OneElement /\ FrontType \in {"CIRCLE", "ARC", "CYLINDER"}) => validRes = "true"

C3_Witness ==
    /\ validRes = "true"
    /\ OneElement
    /\ FrontType \in {"CIRCLE", "ARC", "CYLINDER"}
    /\ FrontShape.null

\* C4: isPrioritizedSelection is false unless the selection has exactly one
\* element; for one SURFACE or PLANE element it is true exactly when the shape
\* is non-null, is a face, has at least one edge and all its edges are circles.
C4_PrioritizedFace ==
    prioRes # "unset" =>
        /\ Len(selection) # 1 => prioRes = "false"
        /\ (OneElement /\ FrontType \in {"SURFACE", "PLANE"}) =>
               (prioRes = "true" <=>
                    (IsFace(FrontShape) /\ Len(FrontShape.edges) >= 1 /\ AllCircular(FrontShape)))

C4_Witness ==
    /\ prioRes = "true"
    /\ OneElement
    /\ FrontType \in {"SURFACE", "PLANE"}
    /\ IsFace(FrontShape)
    /\ Len(FrontShape.edges) >= 2
    /\ AllCircular(FrontShape)

\* ------------------------------------------------------ document object
Top == stack[Len(stack)]
Pop == SubSeq(stack, 1, Len(stack) - 1)
Running(fn, pc) == stack # <<>> /\ Top.fn = fn /\ Top.pc = pc
TopLevel == stack = <<>>

\* lines 205-221
getMeasureInfoFirst(El) ==
    IF El.obj = NullObj \/ El.subs = <<>> THEN DefaultRadiusInfo
    ELSE LET subject == [obj |-> El.obj, sub |-> Head(El.subs)]
             info == measureInfo[subject]
         IN  IF info.kind = "null" \/ ~info.valid THEN DefaultRadiusInfo
             ELSE IF info.kind = "MeasureRadiusInfo" THEN info   \* dynamic_pointer_cast
             ELSE NullInfo

\* line 170
executeFails_nullOnly(info) == info.kind = "null"

executeFails(info) == info.kind = "null" \/ ~info.valid

\* line 174
executeDiameter_notDoubled(info) == info.radius

executeDiameter(info) == info.radius * 2

\* lines 180-189: what onChanged does after its guard
onChangedBranch_ignoresRemoving(prop, isRestoring, isRemoving) ==
    IF isRestoring THEN "return"
    ELSE IF prop = "Element" THEN "recompute"
    ELSE "forward"

onChangedBranch_noRecompute(prop, isRestoring, isRemoving) ==
    IF isRestoring \/ isRemoving THEN "return"
    ELSE "forward"

onChangedBranch(prop, isRestoring, isRemoving) ==
    IF isRestoring \/ isRemoving THEN "return"
    ELSE IF prop = "Element" THEN "recompute"
    ELSE "forward"

onChangedFrame(prop) ==
    [fn |-> "onChanged", prop |-> prop, pc |-> "enter", trace |-> <<>>, before |-> 0]

executeFrame ==
    [fn |-> "execute", prop |-> "none", pc |-> "enter", trace |-> <<>>, before |-> Diameter]

\* App::DocumentObject::recompute() runs execute() and hands back its result
recompute(caller) == Append(Append(Pop, caller), executeFrame)

\* Element.setValue(...) ends in the property's change notification, which
\* calls onChanged(&Element)
ElementSetValue(obj, subs) ==
    /\ Element' = [obj |-> obj, subs |-> subs]
    /\ stack' = <<onChangedFrame("Element")>>
    /\ unsynced' = (restoring \/ removing)
    /\ done' = <<>>
    /\ lastExec' = <<>>
    /\ UNCHANGED <<measureInfo, Diameter, restoring, removing>>
    /\ UNCHANGED selVars

\* lines 158-165; selection.front() of an empty vector reads an arbitrary item
parseSelection ==
    /\ TopLevel
    /\ \E sel \in Selections :
         \E element \in (IF sel = <<>> THEN SelectionItems ELSE {Head(sel)}) :
            LET objT == element.object
            IN  ElementSetValue(objT.obj, <<objT.sub>>)

\* Element set from elsewhere (property editor, script, link update)
ElementEdited ==
    /\ TopLevel
    /\ \E obj \in Objects \cup {NullObj}, subs \in SeqsUpTo(SubNames, MaxSubs) :
         ElementSetValue(obj, subs)

\* another property of the object changes
OtherProps == {"Label"}
PropertyTouched ==
    /\ TopLevel
    /\ \E prop \in OtherProps : stack' = <<onChangedFrame(prop)>>
    /\ done' = <<>>
    /\ lastExec' = <<>>
    /\ UNCHANGED <<measureInfo, Element, Diameter, restoring, removing, unsynced>>
    /\ UNCHANGED selVars

\* the document recomputes the feature
recomputeFeature ==
    /\ TopLevel
    /\ stack' = <<executeFrame>>
    /\ done' = <<>>
    /\ lastExec' = <<>>
    /\ UNCHANGED <<measureInfo, Element, Diameter, restoring, removing, unsynced>>
    /\ UNCHANGED selVars

\* the document starts or ends restoring / removing the object
setStatus ==
    /\ TopLevel
    /\ \/ restoring' = ~restoring /\ UNCHANGED removing
       \/ removing' = ~removing /\ UNCHANGED restoring
    /\ UNCHANGED <<measureInfo, Element, Diameter, stack, done, lastExec, unsynced>>
    /\ UNCHANGED selVars

Returned(frame) ==
    [prop |-> frame.prop, restoring |-> restoring, removing |-> removing, trace |-> frame.trace]

\* lines 180-184
onChangedGuard ==
    /\ Running("onChanged", "enter")
    /\ LET branch == onChangedBranch(Top.prop, restoring, removing)
       IN  IF branch = "return"
           THEN /\ stack' = Pop
                /\ done' = <<Returned(Top)>>
           ELSE /\ stack' = Append(Pop, [Top EXCEPT !.pc = branch])
                /\ UNCHANGED done
    /\ UNCHANGED <<measureInfo, Element, Diameter, restoring, removing, lastExec, unsynced>>
    /\ UNCHANGED selVars

\* line 185
onChangedRecompute ==
    /\ Running("onChanged", "recompute")
    /\ stack' = recompute([Top EXCEPT !.pc = "delete_ret"])
    /\ UNCHANGED <<measureInfo, Element, Diameter, restoring, removing, done, lastExec, unsynced>>
    /\ UNCHANGED selVars

\* line 186
onChangedDeleteRet ==
    /\ Running("onChanged", "delete_ret")
    /\ stack' = Append(Pop, [Top EXCEPT !.pc = "forward", !.trace = Append(@, "recompute")])
    /\ UNCHANGED <<measureInfo, Element, Diameter, restoring, removing, done, lastExec, unsynced>>
    /\ UNCHANGED selVars

\* line 189
onChangedForward ==
    /\ Running("onChanged", "forward")
    /\ stack' = Pop
    /\ done' = <<Returned([Top EXCEPT !.trace = Append(@, "MeasureBase::onChanged")])>>
    /\ UNCHANGED <<measureInfo, Element, Diameter, restoring, removing, lastExec, unsynced>>
    /\ UNCHANGED selVars

Executed(before, ret) ==
    [element |-> Element, before |-> before, after |-> Diameter, ret |-> ret]

\* lines 169-174; Diameter.setValue notifies through onChanged(&Diameter)
execute ==
    /\ Running("execute", "enter")
    /\ LET info == getMeasureInfoFirst(Element)
       IN  IF executeFails(info)
           THEN /\ stack' = Pop
                /\ lastExec' = <<Executed(Top.before, CannotCalculate)>>
                /\ UNCHANGED Diameter
           ELSE /\ Diameter' = executeDiameter(info)
                /\ stack' = Append(Append(Pop, [Top EXCEPT !.pc = "return"]),
                                   onChangedFrame("Diameter"))
                /\ UNCHANGED lastExec
    /\ UNCHANGED <<measureInfo, Element, restoring, removing, done, unsynced>>
    /\ UNCHANGED selVars

\* line 175
executeReturn ==
    /\ Running("execute", "return")
    /\ stack' = Pop
    /\ lastExec' = <<Executed(Top.before, StdReturn)>>
    /\ UNCHANGED <<measureInfo, Element, Diameter, restoring, removing, done, unsynced>>
    /\ UNCHANGED selVars

InitDoc ==
    /\ selection = <<>>
    /\ elementType = [s \in SubObjectTs |-> "INVALID"]
    /\ shapeOf = [s \in SubObjectTs |-> NullShape]
    /\ validRes = "unset"
    /\ prioRes = "unset"
    /\ measureInfo \in [SubObjectTs -> HandlerInfos]
    /\ InitObj

NextObj ==
    \/ parseSelection
    \/ ElementEdited
    \/ PropertyTouched
    \/ recomputeFeature
    \/ setStatus
    \/ onChangedGuard
    \/ onChangedRecompute
    \/ onChangedDeleteRet
    \/ onChangedForward
    \/ execute
    \/ executeReturn

SpecObj == InitDoc /\ [][NextObj]_vars

\* ------------------------------------------------- document object claims
YieldsValidRadius(El) ==
    /\ El.obj # NullObj
    /\ El.subs # <<>>
    /\ measureInfo[[obj |-> El.obj, sub |-> El.subs[1]]].kind = "MeasureRadiusInfo"
    /\ measureInfo[[obj |-> El.obj, sub |-> El.subs[1]]].valid
RadiusOf(El) == measureInfo[[obj |-> El.obj, sub |-> El.subs[1]]].radius

\* C2: an execute() that ran while the element referenced by Element yields a
\* valid radius info left Diameter at twice that radius and returned StdReturn.
C2_ExecuteDoublesRadius ==
    (lastExec # <<>> /\ YieldsValidRadius(lastExec[1].element)) =>
        /\ lastExec[1].after = 2 * RadiusOf(lastExec[1].element)
        /\ lastExec[1].ret = StdReturn

C2_Witness ==
    /\ lastExec # <<>>
    /\ YieldsValidRadius(lastExec[1].element)
    /\ lastExec[1].ret = StdReturn
    /\ lastExec[1].after = 2 * MaxRadius
    /\ lastExec[1].before # lastExec[1].after

\* C5: an execute() that ran while no valid radius info was available returned
\* the error "Cannot calculate diameter" and left Diameter as it was.
C5_ExecuteFailureKeepsDiameter ==
    (lastExec # <<>> /\ ~YieldsValidRadius(lastExec[1].element)) =>
        /\ lastExec[1].ret = CannotCalculate
        /\ lastExec[1].after = lastExec[1].before

C5_Witness ==
    /\ lastExec # <<>>
    /\ lastExec[1].element.obj # NullObj
    /\ lastExec[1].element.subs # <<>>
    /\ ~YieldsValidRadius(lastExec[1].element)
    /\ lastExec[1].ret = CannotCalculate
    /\ lastExec[1].before # 0
    /\ lastExec[1].after = lastExec[1].before

\* C6: a returned onChanged(prop) made no call at all while restoring or
\* removing; otherwise it forwarded to MeasureBase::onChanged exactly once, as
\* its last call, preceded by one completed recompute exactly when prop is
\* Element.
C6_OnChangedCalls ==
    done # <<>> =>
        done[1].trace =
            IF done[1].restoring \/ done[1].removing THEN <<>>
            ELSE IF done[1].prop = "Element" THEN <<"recompute", "MeasureBase::onChanged">>
            ELSE <<"MeasureBase::onChanged">>

C6_Witness ==
    /\ done # <<>>
    /\ done[1].prop = "Element"
    /\ ~done[1].restoring
    /\ ~done[1].removing
    /\ done[1].trace = <<"recompute", "MeasureBase::onChanged">>
    /\ lastExec # <<>>

\* C7: when no call is in progress and Element was last set while neither
\* restoring nor removing, an Element whose element yields a valid radius info
\* has Diameter equal to twice that radius.
C7_DiameterFollowsElement ==
    (TopLevel /\ ~unsynced /\ YieldsValidRadius(Element)) =>
        Diameter = 2 * RadiusOf(Element)

C7_Witness ==
    /\ TopLevel
    /\ ~unsynced
    /\ YieldsValidRadius(Element)
    /\ Diameter = 2 * RadiusOf(Element)
    /\ done # <<>>
    /\ done[1].prop = "Element"
    /\ lastExec # <<>>
    /\ lastExec[1].before # 0
    /\ lastExec[1].before # Diameter

====
